---- MODULE Spec2Model ----
(***************************************************************************)
(* Model of src/monitor.py: the SystemMonitor sampler (collect_data), the  *)
(* tick loop of start() and the tables built by generate_pdf_report.       *)
(*                                                                         *)
(* Time is counted in tenths of a second: time.time() is the variable now, *)
(* which only moves forward, by the 0.1 s sampling window of               *)
(* psutil.cpu_percent(interval=0.1) and by time.sleep(self.interval).      *)
(* Byte counters are whole multiples of 1024*1024 bytes, so the true       *)
(* division by (1024 * 1024) of collect_data is exact on them.             *)
(* An optional reading (None or a number) is a record [some, val];         *)
(* a counter reading (None or a namedtuple) is a record with a field ok.   *)
(***************************************************************************)
EXTENDS Integers, Sequences, FiniteSets, TLC

\* ---------------------------------------------------------------- bounds
MaxDuration == 15   \* longest configured duration, in tenths of a second
MaxDelay == 16      \* longest pause between construction and start()
MaxRecords == 25    \* longest frozen series handed to the report builder

\* ------------------------------------------------------ program constants
Interval == 10      \* self.interval = 1 second
CpuWindow == 1      \* psutil.cpu_percent(interval=0.1)
MiB == 1048576      \* 1024 * 1024
HeadRecords == 10   \* range(min(10, len(self.timestamps)))
TailThreshold == 20 \* if len(self.timestamps) > 20

\* ------------------------------------------------------------ the inputs
DurationVals == {0, 5, MaxDuration}
StartDelays == {MaxDelay}

NoneCounters == [ok |-> FALSE, a |-> 0, b |-> 0]
\* disk counters: a = read_bytes, b = write_bytes
DiskReadings == {NoneCounters,
                 [ok |-> TRUE, a |-> 2 * MiB, b |-> 1 * MiB],
                 [ok |-> TRUE, a |-> 12 * MiB, b |-> 3 * MiB]}
\* network counters: a = bytes_sent, b = bytes_recv
NetReadings == {NoneCounters,
                [ok |-> TRUE, a |-> 1 * MiB, b |-> 4 * MiB],
                [ok |-> TRUE, a |-> 2 * MiB, b |-> 7 * MiB]}

None == [some |-> FALSE, val |-> 0]
Some(v) == [some |-> TRUE, val |-> v]
TempReadings == {None, Some(45)}
NoGpu == <<None, None, None>>
IdleGpu == <<Some(0), Some(40), Some(10)>>
BusyGpu == <<Some(50), Some(60), Some(30)>>
GpuReadings == {NoGpu, IdleGpu, BusyGpu}
CpuReading == 50
MemoryReading == 40

VARIABLES
    duration, GPU_AVAILABLE,
    timestamps, cpu_percent, memory_percent, disk_read, disk_write,
    network_sent, network_recv, cpu_temp, gpu_util, gpu_temp, gpu_memory,
    last_net, last_disk, start_time,
    now,            \* time.time()
    pc,             \* position in start()
    loop_start,     \* the local start_time of start()
    iteration,
    disk, net,      \* the counters read by the latest collect_data
    interrupted,    \* a KeyboardInterrupt was delivered
    error,          \* the exception that left start(), or "none"
    report_calls,   \* invocations of generate_pdf_report
    outcome,        \* "none", "pdf", "nodata" or "raised"
    summary_data, detailed_data,
    graph_file,     \* temp_graphs.png exists
    document        \* the PDF file was written

series == <<timestamps, cpu_percent, memory_percent, disk_read, disk_write,
            network_sent, network_recv, cpu_temp, gpu_util, gpu_temp,
            gpu_memory>>
report == <<report_calls, outcome, summary_data, detailed_data, graph_file,
            document>>
vars == <<duration, GPU_AVAILABLE, series, last_net, last_disk, start_time,
          now, pc, loop_start, iteration, disk, net, interrupted, error,
          report>>

\* ------------------------------------------------------------- __init__
InitSeries ==
    /\ timestamps = <<>> /\ cpu_percent = <<>> /\ memory_percent = <<>>
    /\ disk_read = <<>> /\ disk_write = <<>>
    /\ network_sent = <<>> /\ network_recv = <<>>
    /\ cpu_temp = <<>> /\ gpu_util = <<>> /\ gpu_temp = <<>>
    /\ gpu_memory = <<>>

InitReport ==
    /\ report_calls = 0 /\ outcome = "none"
    /\ summary_data = <<>> /\ detailed_data = <<>>
    /\ graph_file = FALSE /\ document = FALSE

Init ==
    /\ duration \in DurationVals
    /\ GPU_AVAILABLE \in BOOLEAN
    /\ InitSeries
    /\ last_net \in NetReadings
    /\ last_disk \in DiskReadings
    /\ start_time = 0
    /\ now = 0
    /\ pc = "constructed"
    /\ loop_start = 0
    /\ iteration = 0
    /\ disk = NoneCounters /\ net = NoneCounters
    /\ interrupted = FALSE
    /\ error = "none"
    /\ InitReport

\* ------------------------------------------------- get_cpu_temp, get_gpu_info
\* `temp if temp else 0`: None and a reading of 0 both give 0
OrZero(x) == IF x.some /\ x.val # 0 THEN x.val ELSE 0

\* get_cpu_temp: the bare `except: pass` returns None for whatever is raised
\* inside the try block; caught says that something was raised there
get_cpu_temp(temp, caught) == IF caught THEN None ELSE temp

\* get_gpu_info: (None, None, None) without GPUtil, and the same bare except
get_gpu_info(gpu, caught) ==
    IF ~GPU_AVAILABLE THEN NoGpu ELSE IF caught THEN NoGpu ELSE gpu

\* where a KeyboardInterrupt is delivered inside a try block with a bare
\* except, which swallows it
CaughtIn == {"nowhere", "get_cpu_temp", "get_gpu_info"}

\* --------------------------------------------------------- collect_data
\* mutant of current_time: the elapsed time is taken once, when the loop starts
current_time_at_loop_start == loop_start - start_time

current_time == now - start_time

\* (disk.read_bytes - self.last_disk.read_bytes) / (1024 * 1024)
Rate(cur, last) == (cur - last) \div MiB

DiskBranch(d) == d.ok /\ last_disk.ok
disk_read_rate(d) == IF DiskBranch(d) THEN Rate(d.a, last_disk.a) ELSE 0
disk_write_rate(d) == IF DiskBranch(d) THEN Rate(d.b, last_disk.b) ELSE 0

\* net.bytes_sent on None, or self.last_net.bytes_sent on None
NetRaises(n) == ~n.ok \/ ~last_net.ok
net_sent_rate(n) == Rate(n.a, last_net.a)
net_recv_rate(n) == Rate(n.b, last_net.b)

\* The statements of collect_data that change the monitor, in order:
\*  1 timestamps.append      2 cpu_percent.append   3 memory_percent.append
\*  4 disk_read.append       5 disk_write.append    6 self.last_disk = disk
\*  7 network_sent.append    8 network_recv.append  9 self.last_net = net
\* 10 cpu_temp.append       11 gpu_util.append     12 gpu_temp.append
\* 13 gpu_memory.append
LastStatement == 13

\* the statements that run when the call is cut after statement k: an
\* AttributeError of the network block leaves the call before statement 7
Reached(k, n) == IF k >= 7 /\ NetRaises(n) THEN 6 ELSE k

AppendAt(col, s, k, v) == IF k >= s THEN Append(col, v) ELSE col

\* collect_data run up to statement k on the readings d, n, t, g; sw is
\* the try block in which a KeyboardInterrupt is swallowed
collect_data(k, d, n, t, g, sw) ==
    LET r == Reached(k, n)
        temp == get_cpu_temp(t, sw = "get_cpu_temp")
        gi == get_gpu_info(g, sw = "get_gpu_info")
    IN  /\ timestamps' = AppendAt(timestamps, 1, r, current_time)
        /\ cpu_percent' = AppendAt(cpu_percent, 2, r, CpuReading)
        /\ now' = IF r >= 2 THEN now + CpuWindow ELSE now
        /\ memory_percent' = AppendAt(memory_percent, 3, r, MemoryReading)
        /\ disk' = IF r >= 4 THEN d ELSE disk
        /\ disk_read' = AppendAt(disk_read, 4, r, disk_read_rate(d))
        /\ disk_write' = AppendAt(disk_write, 5, r, disk_write_rate(d))
        /\ last_disk' = IF r >= 6 /\ DiskBranch(d) THEN d ELSE last_disk
        /\ net' = IF k >= 7 THEN n ELSE net
        /\ network_sent' = AppendAt(network_sent, 7, r, net_sent_rate(n))
        /\ network_recv' = AppendAt(network_recv, 8, r, net_recv_rate(n))
        /\ last_net' = IF r >= 9 THEN n ELSE last_net
        /\ cpu_temp' = AppendAt(cpu_temp, 10, r, OrZero(temp))
        /\ gpu_util' = AppendAt(gpu_util, 11, r, OrZero(gi[1]))
        /\ gpu_temp' = AppendAt(gpu_temp, 12, r, OrZero(gi[2]))
        /\ gpu_memory' = AppendAt(gpu_memory, 13, r, OrZero(gi[3]))

\* -------------------------------------------------- generate_pdf_report
RECURSIVE SumSeq(_)
SumSeq(c) == IF c = <<>> THEN 0 ELSE c[1] + SumSeq(Tail(c))

RECURSIVE SumSq(_)
SumSq(c) == IF c = <<>> THEN 0 ELSE c[1] * c[1] + SumSq(Tail(c))

Values(c) == {c[i] : i \in 1..Len(c)}
MinOf(c) == CHOOSE v \in Values(c) : \A w \in Values(c) : v <= w
MaxOf(c) == CHOOSE v \in Values(c) : \A w \in Values(c) : v >= w

\* one row of summary_data: np.mean is sum / count, np.std follows from
\* count, sum and sumsq; every statistic is taken over the whole column
StatRow(name, c) ==
    [name |-> name, count |-> Len(c), sum |-> SumSeq(c), sumsq |-> SumSq(c),
     min |-> MinOf(c), max |-> MaxOf(c)]

\* any(t > 0 for t in self.cpu_temp)
AnyPositive(c) == \E i \in 1..Len(c) : c[i] > 0

CpuTempShown == AnyPositive(cpu_temp)
GpuShown == GPU_AVAILABLE /\ AnyPositive(gpu_util)

\* np.min of an empty column raises ValueError
SummaryRaises ==
    \/ \E c \in {cpu_percent, memory_percent, disk_read, disk_write,
                 network_sent, network_recv} : Len(c) = 0
    \/ GpuShown /\ (Len(gpu_memory) = 0 \/ Len(gpu_temp) = 0)

BaseRows ==
    << StatRow("CPU Usage (%)", cpu_percent),
       StatRow("Memory Usage (%)", memory_percent),
       StatRow("Disk Read (MB/s)", disk_read),
       StatRow("Disk Write (MB/s)", disk_write),
       StatRow("Network Sent (MB/s)", network_sent),
       StatRow("Network Recv (MB/s)", network_recv) >>

CpuTempRows ==
    IF CpuTempShown THEN << StatRow("CPU Temperature (C)", cpu_temp) >>
    ELSE <<>>

GpuRows ==
    IF GpuShown
    THEN << StatRow("GPU Utilization (%)", gpu_util),
            StatRow("GPU Memory (%)", gpu_memory),
            StatRow("GPU Temperature (C)", gpu_temp) >>
    ELSE <<>>

\* the rows of summary_data below its header row
SummaryData == BaseRows \o CpuTempRows \o GpuRows

\* ax.plot(self.timestamps, column) raises ValueError on unequal lengths
PlotRaises ==
    \/ \E c \in {cpu_percent, memory_percent, disk_read, disk_write,
                 network_sent, network_recv} : Len(c) # Len(timestamps)
    \/ CpuTempShown /\ Len(cpu_temp) # Len(timestamps)
    \/ GpuShown /\ (Len(gpu_util) # Len(timestamps)
                    \/ Len(gpu_memory) # Len(timestamps))

Min2(x, y) == IF x <= y THEN x ELSE y
Max2(x, y) == IF x >= y THEN x ELSE y

\* one row of detailed_data; i is the 0-based index of the loop. The times
\* are tenths of a second, which f'{t:.1f}' prints without rounding.
DetailRow(i) ==
    [i |-> i, time |-> timestamps[i + 1], cpu |-> cpu_percent[i + 1],
     memory |-> memory_percent[i + 1], disk_r |-> disk_read[i + 1],
     disk_w |-> disk_write[i + 1], net_s |-> network_sent[i + 1],
     net_r |-> network_recv[i + 1]]

Ellipsis ==
    [i |-> -1, time |-> -1, cpu |-> -1, memory |-> -1, disk_r |-> -1,
     disk_w |-> -1, net_s |-> -1, net_r |-> -1]

\* range(lo, hi) as a sequence of detail rows
RowsOf(lo, hi) ==
    IF hi <= lo THEN <<>> ELSE [j \in 1..(hi - lo) |-> DetailRow(lo + j - 1)]

\* for i in range(min(10, len(self.timestamps)))
FirstRecords == RowsOf(0, Min2(HeadRecords, Len(timestamps)))

\* for i in range(max(10, len(self.timestamps)-10), len(self.timestamps))
LastRecords ==
    RowsOf(Max2(HeadRecords, Len(timestamps) - HeadRecords), Len(timestamps))

\* mutant of DetailedData: the tail is added above 10 records, not above 20
DetailedDataAboveHead ==
    IF Len(timestamps) > HeadRecords
    THEN FirstRecords \o << Ellipsis >> \o LastRecords
    ELSE FirstRecords

\* the rows of detailed_data below its header row
DetailedData ==
    IF Len(timestamps) > TailThreshold
    THEN FirstRecords \o << Ellipsis >> \o LastRecords
    ELSE FirstRecords

\* generate_pdf_report; build_ok: doc.build(elements) wrote the document
generate_pdf_report(build_ok) ==
    /\ report_calls' = report_calls + 1
    /\ IF SummaryRaises
       THEN /\ outcome' = "raised" /\ error' = "ValueError"
            /\ UNCHANGED <<summary_data, detailed_data, graph_file, document>>
       ELSE IF PlotRaises
       THEN /\ outcome' = "raised" /\ error' = "ValueError"
            /\ summary_data' = SummaryData
            /\ UNCHANGED <<detailed_data, graph_file, document>>
       ELSE /\ summary_data' = SummaryData
            /\ detailed_data' = DetailedData
            /\ IF build_ok
               THEN /\ outcome' = "pdf" /\ error' = "none"
                    /\ document' = TRUE
                    /\ graph_file' = FALSE
               ELSE /\ outcome' = "raised" /\ error' = "OSError"
                    /\ document' = FALSE
                    /\ graph_file' = TRUE

\* ------------------------------------------------------------- start()
\* start() is called: start_time = time.time(); iteration = 0
Start ==
    /\ pc = "constructed"
    /\ pc' = "loop"
    /\ loop_start' = now
    /\ iteration' = 0
    /\ UNCHANGED <<duration, GPU_AVAILABLE, series, last_net, last_disk,
                   start_time, now, disk, net, interrupted, error, report>>

\* time passes between SystemMonitor(...) and monitor.start()
Delay ==
    /\ pc = "constructed"
    /\ now = start_time
    /\ \E d \in StartDelays : now' = now + d
    /\ UNCHANGED <<duration, GPU_AVAILABLE, series, last_net, last_disk,
                   start_time, pc, loop_start, iteration, disk, net,
                   interrupted, error, report>>

\* while (time.time() - start_time) < self.duration
LoopCondition == (now - loop_start) < duration

\* one pass of the loop body up to time.sleep: collect_data() runs to its
\* end (k = LastStatement), is left by an AttributeError, or is cut by a
\* KeyboardInterrupt after statement k; a KeyboardInterrupt delivered inside
\* get_cpu_temp or get_gpu_info (sw) is swallowed there and the call goes on
Tick ==
    /\ pc = "loop"
    /\ LoopCondition
    /\ \E k \in 0..LastStatement, d \in DiskReadings, n \in NetReadings,
          t \in TempReadings, g \in GpuReadings, sw \in CaughtIn :
          /\ sw # "nowhere" => (k = LastStatement /\ ~NetRaises(n))
          /\ sw = "get_gpu_info" => GPU_AVAILABLE
          /\ collect_data(k, d, n, t, g, sw)
          /\ IF k >= 7 /\ NetRaises(n)
             THEN /\ pc' = "crashed" /\ error' = "AttributeError"
                  /\ UNCHANGED <<iteration, interrupted>>
             ELSE IF k < LastStatement
             THEN /\ pc' = "collected" /\ interrupted' = TRUE
                  /\ UNCHANGED <<iteration, error>>
             ELSE /\ pc' = "sleep" /\ iteration' = iteration + 1
                  /\ interrupted' = (interrupted \/ sw # "nowhere")
                  /\ UNCHANGED error
    /\ UNCHANGED <<duration, GPU_AVAILABLE, start_time, loop_start, report>>

\* time.sleep(self.interval) returns
Sleep ==
    /\ pc = "sleep"
    /\ now' = now + Interval
    /\ pc' = "loop"
    /\ UNCHANGED <<duration, GPU_AVAILABLE, series, last_net, last_disk,
                   start_time, loop_start, iteration, disk, net,
                   interrupted, error, report>>

\* KeyboardInterrupt during time.sleep
InterruptSleep ==
    /\ pc = "sleep"
    /\ interrupted' = TRUE
    /\ pc' = "collected"
    /\ UNCHANGED <<duration, GPU_AVAILABLE, series, last_net, last_disk,
                   start_time, now, loop_start, iteration, disk, net,
                   error, report>>

\* the loop condition is false
ExitLoop ==
    /\ pc = "loop"
    /\ ~LoopCondition
    /\ pc' = "collected"
    /\ UNCHANGED <<duration, GPU_AVAILABLE, series, last_net, last_disk,
                   start_time, now, loop_start, iteration, disk, net,
                   interrupted, error, report>>

\* mutant of Report: generate_pdf_report is called without the length test
ReportUnguarded ==
    /\ pc = "collected"
    /\ \E build_ok \in BOOLEAN : generate_pdf_report(build_ok)
    /\ pc' = IF outcome' = "raised" THEN "crashed" ELSE "done"
    /\ UNCHANGED <<duration, GPU_AVAILABLE, series, last_net, last_disk,
                   start_time, now, loop_start, iteration, disk, net,
                   interrupted>>

\* if len(self.timestamps) > 0: self.generate_pdf_report() else: print(...)
Report ==
    /\ pc = "collected"
    /\ IF Len(timestamps) > 0
       THEN /\ \E build_ok \in BOOLEAN : generate_pdf_report(build_ok)
            /\ pc' = IF outcome' = "raised" THEN "crashed" ELSE "done"
       ELSE /\ outcome' = "nodata"
            /\ pc' = "done"
            /\ UNCHANGED <<report_calls, summary_data, detailed_data,
                           graph_file, document, error>>
    /\ UNCHANGED <<duration, GPU_AVAILABLE, series, last_net, last_disk,
                   start_time, now, loop_start, iteration, disk, net,
                   interrupted>>

Next == Delay \/ Start \/ Tick \/ Sleep \/ InterruptSleep \/ ExitLoop \/ Report

Spec == Init /\ [][Next]_vars

\* ------------------------------------------- the report on a frozen series
\* A run of main(), duration 120 s, stopped by Ctrl+C after n complete ticks
\* of (Interval + CpuWindow) each, the disk counters moving once, before the
\* first tick: the series that start() hands to generate_pdf_report.
DefaultDuration == 1200
TempPatterns == {"never", "always", "once"}

TickLength == Interval + CpuWindow

FrozenColumn(n, v) == [i \in 1..n |-> v]

InitFrozen ==
    /\ duration = DefaultDuration
    /\ GPU_AVAILABLE \in BOOLEAN
    /\ \E n \in 0..MaxRecords, tp \in TempPatterns, g \in GpuReadings :
         LET gi == get_gpu_info(g, FALSE)
         IN  /\ timestamps = [i \in 1..n |-> (i - 1) * TickLength]
             /\ cpu_percent = FrozenColumn(n, CpuReading)
             /\ memory_percent = FrozenColumn(n, MemoryReading)
             /\ disk_read = [i \in 1..n |-> IF i = 1 THEN 10 ELSE 0]
             /\ disk_write = [i \in 1..n |-> IF i = 1 THEN 2 ELSE 0]
             /\ network_sent = FrozenColumn(n, 0)
             /\ network_recv = FrozenColumn(n, 0)
             /\ cpu_temp = [i \in 1..n |->
                              IF tp = "always" \/ (tp = "once" /\ i = 1)
                              THEN 45 ELSE 0]
             /\ gpu_util = FrozenColumn(n, OrZero(gi[1]))
             /\ gpu_temp = FrozenColumn(n, OrZero(gi[2]))
             /\ gpu_memory = FrozenColumn(n, OrZero(gi[3]))
             /\ now = n * TickLength
             /\ iteration = n
             /\ last_disk = [ok |-> TRUE,
                             a |-> (IF n > 0 THEN 12 ELSE 2) * MiB,
                             b |-> (IF n > 0 THEN 3 ELSE 1) * MiB]
             /\ disk = IF n = 0 THEN NoneCounters ELSE last_disk
    /\ last_net = [ok |-> TRUE, a |-> 1 * MiB, b |-> 4 * MiB]
    /\ net = IF iteration = 0 THEN NoneCounters ELSE last_net
    /\ start_time = 0
    /\ loop_start = 0
    /\ pc = "collected"
    /\ interrupted = TRUE
    /\ error = "none"
    /\ InitReport

NextReport == Report

SpecReport == InitFrozen /\ [][NextReport]_vars

\* ---------------------------------------------------------- properties
Last(c) == c[Len(c)]
RateColumns == {disk_read, disk_write, network_sent, network_recv}
SameLength == \A i \in 1..Len(series) : Len(series[i]) = Len(timestamps)

\* C1: every value of the disk read, disk write, network sent and network
\* received series is >= 0, also after a counter reading lower than the
\* previous one.
C1_RatesNonNegative ==
    \A c \in RateColumns : \A i \in 1..Len(c) : c[i] >= 0

\* C2: a run of start() that is not interrupted has appended at least one
\* sample when the decision to generate the report is taken, for every
\* duration, 0 included.
C2_AtLeastOneSample ==
    (pc = "collected" /\ ~interrupted) => Len(timestamps) >= 1

\* C3: no failed metric read aborts the tick loop or skips a tick: no
\* AttributeError leaves start(), and while no interrupt was delivered every
\* column has one value per tick.
C3_EveryTickCompletes ==
    /\ error # "AttributeError"
    /\ (~interrupted /\ pc \in {"loop", "sleep", "collected"}) =>
         (SameLength /\ Len(timestamps) = iteration)

\* C4: the elapsed times stored in timestamps are strictly increasing in
\* insertion order.
C4_TimestampsIncreasing ==
    \A i \in 1..Len(timestamps) : \A j \in 1..Len(timestamps) :
        i < j => timestamps[i] < timestamps[j]

C4_Witness == Len(timestamps) >= 2 /\ pc = "sleep"

\* C5: no sample is appended after a sample whose recorded elapsed time is
\* >= duration.
C5_NoSampleAfterDuration ==
    [][(Len(timestamps) > 0 /\ Last(timestamps) >= duration)
          => timestamps' = timestamps]_vars

\* C6: once a KeyboardInterrupt was delivered during collection, collection
\* has ended (no further sleep or tick), and a run that has ended after it
\* with at least one sample has invoked generate_pdf_report exactly once
\* (never more than once).
C6_InterruptStillReports ==
    /\ interrupted => pc \in {"collected", "done", "crashed"}
    /\ (interrupted /\ pc \in {"done", "crashed"} /\ Len(timestamps) > 0)
          => report_calls = 1
    /\ report_calls <= 1

\* C7: with an empty series the report step of start() writes no document,
\* raises nothing and ends in the "no data" outcome without invoking
\* generate_pdf_report.
C7_EmptySeriesNoData ==
    (pc \in {"done", "crashed"} /\ Len(timestamps) = 0) =>
        /\ pc = "done" /\ outcome = "nodata" /\ error = "none"
        /\ ~document /\ ~graph_file /\ report_calls = 0

C7_Witness == pc = "done" /\ Len(timestamps) = 0 /\ outcome = "nodata"

\* the row of summary_data named name is present
HasRow(name) == \E i \in 1..Len(summary_data) : summary_data[i].name = name
\* some collected value of the column is not the fallback sentinel 0
NonFallback(c) == \E i \in 1..Len(c) : c[i] # 0
OptionalRows ==
    { <<"CPU Temperature (C)", cpu_temp>>, <<"GPU Utilization (%)", gpu_util>>,
      <<"GPU Memory (%)", gpu_memory>>, <<"GPU Temperature (C)", gpu_temp>> }

\* C8: in a generated report each optional row (CPU temperature, GPU
\* utilization, GPU memory, GPU temperature) is present if and only if some
\* collected value of that metric is not the fallback 0, and a row that is
\* present holds the statistics of the metric's whole column.
C8_OptionalRows ==
    outcome = "pdf" =>
        \A r \in OptionalRows :
            /\ HasRow(r[1]) <=> NonFallback(r[2])
            /\ \A i \in 1..Len(summary_data) :
                 summary_data[i].name = r[1] =>
                     summary_data[i] = StatRow(r[1], r[2])

\* the sample indices n-10 .. n-1, or lo .. hi-1 in general
Indices(lo, hi) == IF hi <= lo THEN <<>> ELSE [j \in 1..(hi - lo) |-> lo + j - 1]
ExcerptIndices(n) ==
    IF n > 20 THEN Indices(0, 10) \o << -1 >> \o Indices(n - 10, n)
    ELSE Indices(0, IF n < 10 THEN n ELSE 10)

\* C9: for n samples detailed_data lists samples 0..min(10,n)-1, then, if
\* n > 20, one ellipsis row and the samples n-10..n-1, and nothing more if
\* n <= 20; no sample appears twice and each row shows its own sample.
C9_DetailedExcerpt ==
    outcome = "pdf" =>
        LET n == Len(timestamps)
        IN  /\ Len(detailed_data) = Len(ExcerptIndices(n))
            /\ \A k \in 1..Len(detailed_data) :
                 /\ detailed_data[k].i = ExcerptIndices(n)[k]
                 /\ detailed_data[k].i >= 0 =>
                      detailed_data[k].time = timestamps[detailed_data[k].i + 1]
                 /\ detailed_data[k].i < 0 => detailed_data[k] = Ellipsis
            /\ \A k \in 1..Len(detailed_data) : \A m \in 1..Len(detailed_data) :
                 (k # m /\ detailed_data[k].i >= 0) =>
                     detailed_data[k].i # detailed_data[m].i

C9_Witness ==
    /\ outcome = "pdf" /\ Len(timestamps) = MaxRecords
    /\ Len(detailed_data) = 21 /\ detailed_data[11] = Ellipsis
    /\ detailed_data[12].i = MaxRecords - 10

\* the rate r that C10 states for a counter moving from last to cur over dt
\* tenths of a second: r = max(0, (cur - last) / (dt / 10)) in MiB, and 0 on
\* the first tick or without counters
ClaimedRate(r, first, avail, cur, last, dt) ==
    IF first \/ ~avail THEN r = 0
    ELSE r * dt = Max2(0, (cur - last) \div MiB) * Interval

\* C10: each rate appended by a tick equals max(0, (current - previous) /
\* seconds since the previous tick) in MiB-based MB/s when a previous
\* snapshot exists, and 0 on the first tick or when counters are unavailable.
C10_RateFormula ==
    [][(pc = "loop" /\ pc' = "sleep") =>
         LET first == Len(timestamps) = 0
             dt == IF first THEN 0 ELSE Last(timestamps') - Last(timestamps)
         IN  /\ ClaimedRate(Last(disk_read'), first, disk'.ok /\ last_disk.ok,
                            disk'.a, last_disk.a, dt)
             /\ ClaimedRate(Last(disk_write'), first, disk'.ok /\ last_disk.ok,
                            disk'.b, last_disk.b, dt)
             /\ ClaimedRate(Last(network_sent'), first, net'.ok /\ last_net.ok,
                            net'.a, last_net.a, dt)
             /\ ClaimedRate(Last(network_recv'), first, net'.ok /\ last_net.ok,
                            net'.b, last_net.b, dt)]_vars

\* C11: no sample is half-written: after a tick has completed, and after a
\* KeyboardInterrupt was delivered anywhere inside a tick (up to and after
\* the report step), all eleven columns of the series have the same length.
C11_NoHalfWrittenSample ==
    (pc \in {"sleep", "collected", "done", "crashed"}
       /\ error # "AttributeError") => SameLength

\* C12: after every completed tick last_disk and last_net are the most recent
\* successfully read counters: a reading that succeeded has replaced the
\* snapshot, and a reading that failed has left it as it was and has given
\* rate 0 for this tick.
C12_SnapshotIsLatestReading ==
    [][(pc = "loop" /\ pc' = "sleep") =>
         /\ disk'.ok => last_disk' = disk'
         /\ ~disk'.ok => /\ last_disk' = last_disk
                         /\ Last(disk_read') = 0 /\ Last(disk_write') = 0
         /\ net'.ok => last_net' = net'
         /\ ~net'.ok => /\ last_net' = last_net
                        /\ Last(network_sent') = 0
                        /\ Last(network_recv') = 0]_vars

\* C13: when an invocation of generate_pdf_report has ended, normally or by
\* an exception, the temporary chart file temp_graphs.png does not exist.
C13_TempFileRemoved ==
    (report_calls > 0 /\ pc \in {"done", "crashed"}) => ~graph_file

====
